---------------------------- MODULE Spec2Model ----------------------------
(***************************************************************************)
(* Model of the Starfish video decoder controller                          *)
(* (xbmc/cores/VideoPlayer/DVDCodecs/Video/DVDVideoCodecStarfish.cpp) and  *)
(* of the Starfish audio sink                                              *)
(* (xbmc/cores/AudioEngine/Sinks/AESinkStarfish.cpp).                      *)
(*                                                                         *)
(* Each controller instance owns one engine session (m_starfishMediaAPI).  *)
(* All instances share the process-wide flag m_InstanceGuard.  An instance *)
(* is driven by one owning thread; the engine delivers PlayerCallback on   *)
(* its own thread and advances its playback position on its own.           *)
(*                                                                         *)
(* Open and GetPicture are split at the points where another thread can    *)
(* observably interleave (the atomic exchange on the guard; the repeated   *)
(* reads of the engine position).  The sink's AddPackets is split at each  *)
(* turn of its retry loop, where it sleeps.  Every other handler is one    *)
(* action.                                                                 *)
(***************************************************************************)
EXTENDS Integers, Sequences, FiniteSets, TLC

VARIABLES
    m_InstanceGuard,      \* static std::atomic<bool>
    m_opened,             \* [instance -> BOOLEAN]
    m_state,              \* [instance -> STARFISH_STATES]
    m_hints,              \* [instance -> stream descriptor or NoHints]
    m_bitstream,          \* [instance -> "null" | "wait" | "ready"]
    m_current_playtime,   \* [instance -> last observed engine position]
    m_codecControlFlags,  \* [instance -> the values the field can hold]
    m_videobuffer,        \* [instance -> the values m_videobuffer.pts can hold]
    pc,                   \* [instance -> position of the owning thread]
    hints,                \* [instance -> argument of the Open in progress]
    loaded,               \* engine: [instance -> session loaded]
    playtime,             \* engine: [instance -> position counter, ns]
    loadCompleted,        \* engine: [instance -> LOADCOMPLETED event in flight]
    call,                 \* history: the operation that acted last
    openRes,              \* history: [instance -> outcome of the last Open]
    firstOpensOnly,       \* history: no Dispose and no repeated Open so far
    seeks,                \* history: [instance -> Seeks since Open/Reset]
    lastPicture,          \* history: [instance -> {pts of the last picture}]
    disposed,             \* history: [instance -> closed by Dispose, not reopened]
    lastControl,          \* history: [instance -> the last command SetCodecControl
                          \*   issued since the last successful Open]
    m_format,             \* audio sink: the format stored by Initialize
    m_pts,                \* audio sink: accumulated PTS, ns
    m_delay,              \* audio sink: delay estimate, ns
    m_playtime,           \* audio sink: last reported playtime, ns
    sink,                 \* audio sink: position of the owning thread
    local,                \* audio sink: locals of the AddPackets in progress,
                          \*   with the commands it has issued so far
    created,              \* audio sink: Initialize succeeded, the sink is in use
    audioLoaded,          \* engine: audio session loaded
    audioLoadCompleted,   \* engine: LOADCOMPLETED event of the audio session in flight
    audioCall             \* history: the operation or event that acted last

videoVars == <<m_InstanceGuard, m_opened, m_state, m_hints, m_bitstream,
               m_current_playtime, m_codecControlFlags, m_videobuffer, pc,
               hints, loaded, playtime, loadCompleted, call, openRes,
               firstOpensOnly, seeks, lastPicture, disposed,
                   lastControl>>

audioVars == <<m_format, m_pts, m_delay, m_playtime, sink, local, created,
               audioLoaded, audioLoadCompleted, audioCall>>

vars == <<videoVars, audioVars>>

-----------------------------------------------------------------------------
(* Bounds of the model *)

\* the engine position counter runs from 0 to MaxTicks milliseconds
MaxTicks == 2

\* the per-session Seek counter saturates here
SeekCap == 2

\* the engine answers BufferFull to fewer than MaxFeeds Feeds of one buffer
MaxFeeds == 3

\* the audio PTS advances at most MaxPackets times after an Initialize
MaxPackets == 2

-----------------------------------------------------------------------------
(* Constants of the program *)

Instances == {"v1", "v2"}

\* the instance the session specification drives
Session == {"v1"}

\* enum STARFISH_STATES
STARFISH_STATE_RESET == "RESET"
STARFISH_STATE_FLUSHED == "FLUSHED"
STARFISH_STATE_RUNNING == "RUNNING"

\* CDVDVideoCodec::VCReturn
VC_NONE == "VC_NONE"
VC_BUFFER == "VC_BUFFER"
VC_PICTURE == "VC_PICTURE"

\* TimingConstants.h
DVD_TIME_BASE == 1000000

\* The "no timestamp" sentinel of TimingConstants.h.  The header is not part
\* of the sources at hand; the sentinel is modelled as a value that does not
\* compare greater than zero, which is what "Seek if PTS valid" presupposes.
DVD_NOPTS_VALUE == -1

\* (int)((double)(x) * 1000 / DVD_TIME_BASE): truncation toward zero
DVD_TIME_TO_MSEC(x) ==
    IF x >= 0 THEN x \div (DVD_TIME_BASE \div 1000)
              ELSE -((-x) \div (DVD_TIME_BASE \div 1000))

\* line 431: nanoseconds per millisecond
NsPerMsec == 1000000

\* DVD_MSEC_TO_TIME(ns / 1000000.0) = ns / 1000000.0 * DVD_TIME_BASE / 1000,
\* evaluated in double: the whole milliseconds and the rest are converted
\* apart, to whole microseconds (exact for the positions of the model,
\* which are whole milliseconds)
PlaytimeToPts(ns) ==
    (ns \div NsPerMsec) * (DVD_TIME_BASE \div 1000)
    + ((ns % NsPerMsec) * (DVD_TIME_BASE \div 1000)) \div NsPerMsec

\* codec ids with a case in Open's switch
KnownCodecs == {"MPEG2VIDEO", "MPEG4", "VP8", "VP9", "AVS", "CAVS", "H264",
                "HEVC", "VC1", "AV1"}

\* the cases that create a CBitstreamConverter
BitstreamCodecs == {"AVS", "CAVS", "H264", "HEVC"}

NoHints == [codec |-> "NONE", width |-> 0, height |-> 0, ptsinvalid |-> FALSE,
            extradata |-> FALSE, cryptoSession |-> FALSE]

H264Hints == [codec |-> "H264", width |-> 1920, height |-> 1080,
              ptsinvalid |-> FALSE, extradata |-> TRUE, cryptoSession |-> FALSE]

VP9Hints == [codec |-> "VP9", width |-> 1280, height |-> 720,
             ptsinvalid |-> TRUE, extradata |-> FALSE, cryptoSession |-> FALSE]

\* the descriptors Open is called with
HintsSet == {H264Hints, VP9Hints,
             [H264Hints EXCEPT !.width = 0],
             [VP9Hints EXCEPT !.codec = "THEORA"]}

\* a descriptor Open accepts
ValidHints(h) == h.width # 0 /\ h.height # 0 /\ h.codec \in KnownCodecs

\* tokens a Feed status string can contain
FeedStatuses == SUBSET {"Ok", "BufferFull"}

\* result.find(token) != std::string::npos
Found(result, token) == token \in result

\* one command issued to the engine: its name, its argument, its result
Cmd(c, a, r) == [cmd |-> c, arg |-> a, result |-> r]

\* the commands named c among cmds
Issued(cmds, c) == {k \in DOMAIN cmds : cmds[k].cmd = c}

\* a bool returned to the caller
Bool(b) == IF b THEN "true" ELSE "false"

NoCall == [inst |-> "none", op |-> "none", ret |-> "none", cmds |-> <<>>,
           pre |-> "none", arg |-> "none"]

-----------------------------------------------------------------------------
(* Constants of the audio sink (AudioEngine/Sinks/AESinkStarfish.cpp) *)

AE_FMT_RAW == "AE_FMT_RAW"

\* the stream types with a case in Initialize's switch
SinkStreamTypes == {"STREAM_TYPE_AC3", "STREAM_TYPE_EAC3"}

\* AEAudioFormat before Initialize has stored one
NoFormat == [m_dataFormat |-> "AE_FMT_INVALID", m_type |-> "STREAM_TYPE_NULL",
             duration |-> 0, m_sampleRate |-> 0, m_frameSize |-> 0]

\* AC3: 1536 samples at 48 kHz, GetDuration() = 32 ms (kept in microseconds)
AC3Format == [m_dataFormat |-> AE_FMT_RAW, m_type |-> "STREAM_TYPE_AC3",
              duration |-> 32000, m_sampleRate |-> 48000, m_frameSize |-> 6144]

\* E-AC3: 768 samples at 48 kHz, GetDuration() = 16 ms
EAC3Format == [m_dataFormat |-> AE_FMT_RAW, m_type |-> "STREAM_TYPE_EAC3",
               duration |-> 16000, m_sampleRate |-> 48000, m_frameSize |-> 1]

\* the formats Initialize is called with
AudioFormats == {AC3Format, EAC3Format,
                 [AC3Format EXCEPT !.m_type = "STREAM_TYPE_DTSHD"],
                 [AC3Format EXCEPT !.m_dataFormat = "AE_FMT_FLOAT"]}

\* the frame counts and offsets AddPackets is called with
FrameCounts == {1024, 1536}
Offsets == {0, 512}

\* the playtimes a FRAMEREADY event reports, ns
Playtimes == {300000, 48000000}

PF_EVENT_TYPE_FRAMEREADY == "FRAMEREADY"

NoLocal == [payload |-> [bufferAddr |-> 0, bufferSize |-> 0, pts |-> 0,
                         esData |-> 0],
            frames |-> 0, offset |-> 0, frameTime |-> 0, cmds |-> <<>>]

NoAudioCall == [op |-> "none", done |-> TRUE, ret |-> 0, cmds |-> <<>>,
                pre |-> 0, arg |-> [frames |-> 0, offset |-> 0]]

-----------------------------------------------------------------------------
(* Constants of the video controller, continued *)

\* DVD_CODEC_CTRL_DRAIN; a flags word is modelled as the set of its set bits
DVD_CODEC_CTRL_DRAIN == "DRAIN"

\* the flags words SetCodecControl is called with: none, drain, drain and drop
ControlFlags == {{}, {DVD_CODEC_CTRL_DRAIN}, {DVD_CODEC_CTRL_DRAIN, "DROP"}}

\* the flags word 0
NoFlags == {}

\* the flags words of a player that drains and resumes: none, drain
DrainFlags == {NoFlags, {DVD_CODEC_CTRL_DRAIN}}

\* the values a pts that was never written can hold
AnyPts == {DVD_NOPTS_VALUE, 0}

\* VideoPicture::Reset, called at line 272: the pts is cleared
VideoPictureReset(pts) == {DVD_NOPTS_VALUE}

\* line 388: the cached picture timestamp is invalidated
InvalidatePts(pts) == {DVD_NOPTS_VALUE}

-----------------------------------------------------------------------------
(* Construction *)

\* CAESinkStarfish::CAESinkStarfish, AESinkStarfish.cpp lines 72-78
InitAudio ==
    /\ m_format = NoFormat
    /\ m_pts = 0
    /\ m_delay = 0
    /\ m_playtime = 0
    /\ sink = "idle"
    /\ local = NoLocal
    /\ created = FALSE
    /\ audioLoaded = FALSE
    /\ audioLoadCompleted = FALSE
    /\ audioCall = NoAudioCall

\* CDVDVideoCodecStarfish::CDVDVideoCodecStarfish, lines 47-56

Init ==
    /\ m_InstanceGuard = FALSE
    /\ m_opened = [i \in Instances |-> FALSE]
    /\ m_state = [i \in Instances |-> STARFISH_STATE_FLUSHED]
    /\ m_hints = [i \in Instances |-> NoHints]
    /\ m_bitstream = [i \in Instances |-> "null"]
    /\ m_current_playtime = [i \in Instances |-> 0]
    /\ pc = [i \in Instances |-> "idle"]
    /\ hints = [i \in Instances |-> NoHints]
    /\ loaded = [i \in Instances |-> FALSE]
    /\ playtime = [i \in Instances |-> 0]
    /\ loadCompleted = [i \in Instances |-> FALSE]
    /\ call = NoCall
    /\ openRes = [i \in Instances |-> "none"]
    /\ firstOpensOnly = TRUE
    /\ seeks = [i \in Instances |-> 0]
    /\ lastPicture = [i \in Instances |-> {}]
    /\ disposed = [i \in Instances |-> FALSE]
    /\ lastControl = [i \in Instances |-> "none"]
    /\ m_codecControlFlags = [i \in Instances |-> ControlFlags]
    /\ m_videobuffer = [i \in Instances |-> AnyPts]
    /\ InitAudio

-----------------------------------------------------------------------------
(* Open *)

\* a plain store in place of the exchange: the old value is never seen
ExchangeBlind(guard, v) == <<v, FALSE>>

\* m_InstanceGuard.exchange(true): <<new value, value returned>>
Exchange(guard, v) == <<v, guard>>

\* Open, lines 78-89: clear m_opened, test-and-set the guard
OpenEnter(i, h) ==
    /\ pc[i] = "idle"
    /\ LET x == Exchange(m_InstanceGuard, TRUE) IN
        /\ m_opened' = [m_opened EXCEPT ![i] = FALSE]
        /\ m_InstanceGuard' = x[1]
        /\ firstOpensOnly' = (firstOpensOnly /\ openRes[i] = "none")
        /\ IF x[2]
             THEN /\ UNCHANGED <<pc, hints>>
                  /\ openRes' = [openRes EXCEPT ![i] = "guard"]
                  /\ call' = [inst |-> i, op |-> "Open", ret |-> Bool(FALSE),
                              cmds |-> <<>>, pre |-> m_state[i], arg |-> h]
             ELSE /\ pc' = [pc EXCEPT ![i] = "open"]
                  /\ hints' = [hints EXCEPT ![i] = h]
                  /\ openRes' = [openRes EXCEPT ![i] = "pending"]
                  /\ call' = [inst |-> i, op |-> "OpenEnter", ret |-> "pending",
                              cmds |-> <<>>, pre |-> m_state[i], arg |-> h]
    /\ UNCHANGED <<m_state, m_hints, m_bitstream, m_current_playtime, loaded,
                   playtime, loadCompleted, seeks, lastPicture,
                   m_codecControlFlags, m_videobuffer, disposed,
                   lastControl>>
    /\ UNCHANGED audioVars

\* a failure path that returns without passing the FAIL label
OpenFailGuardKept(guard) == guard

\* the FAIL label, lines 293-296
OpenFailGuard(guard) == Exchange(guard, FALSE)[1]

\* the converter Open's switch leaves in m_bitstream, lines 137-146, 184-192
OpenBitstream(old, h, bsOpenOk, startDecode) ==
    IF h.codec \in BitstreamCodecs /\ h.extradata /\ ~h.cryptoSession
      THEN IF bsOpenOk THEN (IF startDecode THEN "ready" ELSE "wait")
                       ELSE "null"
      ELSE old

\* Open, lines 91-297, run by the instance that took the guard.
\* useStarfish, useStarfishSurface: the two settings; bsOpenOk, startDecode:
\* what the new converter reports; loadOk: what Load returns
OpenBody(i, useStarfish, useStarfishSurface, bsOpenOk, startDecode, loadOk) ==
    /\ pc[i] = "open"
    /\ pc' = [pc EXCEPT ![i] = "idle"]
    /\ hints' = [hints EXCEPT ![i] = NoHints]
    /\ LET h == hints[i]
           sizeOk == h.width # 0 /\ h.height # 0
           enabled == useStarfish \/ useStarfishSurface
           known == h.codec \in KnownCodecs
           stored == sizeOk /\ enabled
           reachLoad == stored /\ known
           ok == reachLoad /\ loadOk
           why == IF ~sizeOk THEN "size"
                  ELSE IF ~enabled THEN "setting"
                  ELSE IF ~known THEN "codec"
                  ELSE IF ~loadOk THEN "load" ELSE "ok"
       IN
        /\ m_hints' = [m_hints EXCEPT ![i] = IF stored THEN h ELSE @]
        /\ m_bitstream' = [m_bitstream EXCEPT ![i] =
               IF reachLoad THEN OpenBitstream(@, h, bsOpenOk, startDecode)
                            ELSE @]
        /\ m_opened' = [m_opened EXCEPT ![i] = ok]
        /\ m_InstanceGuard' =
               IF ok THEN m_InstanceGuard ELSE OpenFailGuard(m_InstanceGuard)
        /\ loaded' = [loaded EXCEPT ![i] = IF ok THEN TRUE ELSE @]
        /\ loadCompleted' = [loadCompleted EXCEPT ![i] = IF ok THEN TRUE ELSE @]
        /\ openRes' = [openRes EXCEPT ![i] = why]
        /\ seeks' = [seeks EXCEPT ![i] = IF ok THEN 0 ELSE @]
        /\ m_codecControlFlags' = [m_codecControlFlags EXCEPT ![i] =
               IF ok THEN {NoFlags} ELSE @]
        /\ m_videobuffer' = [m_videobuffer EXCEPT ![i] =
               IF ok THEN VideoPictureReset(@) ELSE @]
        /\ disposed' = [disposed EXCEPT ![i] = IF ok THEN FALSE ELSE @]
        /\ lastControl' = [lastControl EXCEPT ![i] = IF ok THEN "none" ELSE @]
        /\ call' = [inst |-> i, op |-> "Open", ret |-> Bool(ok),
                    cmds |-> IF reachLoad
                               THEN <<Cmd("notifyForeground", "", "void"),
                                      Cmd("Load", h.codec, Bool(loadOk))>>
                               ELSE <<>>,
                    pre |-> m_state[i], arg |-> h]
    /\ UNCHANGED <<m_state, m_current_playtime, playtime, firstOpensOnly,
                   lastPicture>>
    /\ UNCHANGED audioVars

-----------------------------------------------------------------------------
(* Dispose *)

\* a Dispose that forgets the guard
DisposeGuardKept(guard) == guard

\* what Dispose leaves in the guard, line 307
DisposeGuard(guard) == Exchange(guard, FALSE)[1]

\* a Dispose that leaves the controller open
DisposeOpenedKept(opened) == opened

\* what Dispose leaves in m_opened, line 303
DisposeOpened(opened) == FALSE

\* Dispose, lines 299-308
Dispose(i) ==
    /\ pc[i] = "idle"
    /\ firstOpensOnly' = FALSE
    /\ IF ~m_opened[i]
         THEN /\ call' = [inst |-> i, op |-> "Dispose", ret |-> "void",
                          cmds |-> <<>>, pre |-> m_state[i], arg |-> FALSE]
              /\ UNCHANGED <<m_opened, m_InstanceGuard, loaded, loadCompleted,
                             disposed>>
         ELSE /\ m_opened' = [m_opened EXCEPT ![i] = DisposeOpened(@)]
              /\ disposed' = [disposed EXCEPT ![i] = TRUE]
              /\ m_InstanceGuard' = DisposeGuard(m_InstanceGuard)
              /\ loaded' = [loaded EXCEPT ![i] = FALSE]
              /\ loadCompleted' = [loadCompleted EXCEPT ![i] = FALSE]
              /\ call' = [inst |-> i, op |-> "Dispose", ret |-> "void",
                          cmds |-> <<Cmd("Unload", "", "void")>>, pre |-> m_state[i],
                          arg |-> TRUE]
    /\ UNCHANGED <<m_state, m_hints, m_bitstream, m_current_playtime, pc, hints,
                   playtime, openRes, seeks, lastPicture, m_codecControlFlags,
                   m_videobuffer, lastControl>>
    /\ UNCHANGED audioVars

-----------------------------------------------------------------------------
(* AddData *)

\* the packet timestamps: none, zero, 2.5 ms
PtsSet == {DVD_NOPTS_VALUE, 0, 2500}

\* packet timestamps further into the stream: 3 s, 30 min
LongPtsSet == {3000000, 1800000000}

\* packets further into the stream
LongPackets == {[pData |-> TRUE, iSize |-> 188, pts |-> t] : t \in LongPtsSet}

\* the packets AddData is called with: pData (non-null), iSize, pts
Packets == {[pData |-> TRUE, iSize |-> 188, pts |-> t] : t \in PtsSet}
           \cup {[pData |-> d, iSize |-> 0, pts |-> 2500] : d \in BOOLEAN}

\* line 324: the pts AddData works with
PacketPts(h, packet) == IF h.ptsinvalid THEN DVD_NOPTS_VALUE ELSE packet.pts

\* line 331: the packet goes through the converter
Converts(i, packet) == m_opened[i] /\ packet.pData /\ m_bitstream[i] # "null"

\* CBitstreamConverter::Convert followed by CanStartDecode: decoding can
\* start once a keyframe has been seen since the last ResetStartDecode
ConvertStart(bs, keyframe) == IF bs = "ready" \/ keyframe THEN "ready" ELSE "wait"

\* a gate that never holds a packet back
GateNeverClosed(state, bs) == FALSE

\* line 335: the keyframe gate holds the packet back
GateClosed(state, bs) == state = STARFISH_STATE_FLUSHED /\ bs # "ready"

\* the converter's flag after line 333
BitstreamAfter(i, packet, keyframe) ==
    IF Converts(i, packet) THEN ConvertStart(m_bitstream[i], keyframe)
                           ELSE m_bitstream[i]

\* line 338: AddData returns at the gate
Gated(i, packet, keyframe) ==
    Converts(i, packet)
    /\ GateClosed(m_state[i], BitstreamAfter(i, packet, keyframe))

\* lines 327-328, 341-342: the buffer handed on: <<pData, iSize>>; the
\* converter makes nothing of an input of no bytes
Buffer(i, packet, convOk) ==
    IF Converts(i, packet)
      THEN <<convOk /\ packet.iSize # 0,
             IF convOk /\ packet.iSize # 0 THEN packet.iSize + 4 ELSE 0>>
      ELSE <<packet.pData, packet.iSize>>

\* a Feed for every buffer
HasDataAlways(buffer) == TRUE

\* line 352: a Feed is issued for the buffer
HasData(buffer) == buffer[1] /\ buffer[2] # 0

\* the comparison of line 347 written with >=
SeekWantedFromZero(pts) == pts >= 0

\* line 347: the one-time Seek is issued for this pts
SeekWanted(pts) == pts > 0

\* lines 345-350: the state AddData leaves behind once past the gate
AfterFirstBuffer(state) ==
    IF state = STARFISH_STATE_FLUSHED THEN STARFISH_STATE_RUNNING ELSE state

\* 2^16: the product of two ints is worked out on 16-bit halves
Half == 65536

\* a * b for ints a, b >= 0 as the 64-bit integer the payload stores:
\* <<upper word, lower word as a signed int>>.  A product beyond INT_MAX is
\* a signed overflow: the build either keeps the lower word and extends its
\* sign, or (wide) multiplies into the 64-bit register.
IntProduct(a, b, wide) ==
    LET a0 == a % Half
        a1 == a \div Half
        b0 == b % Half
        b1 == b \div Half
        p0 == a0 * b0
        s1 == a1 * b0 + a0 * b1 + p0 \div Half
        l0 == p0 % Half
        l1 == s1 % Half
        upper == a1 * b1 + s1 \div Half
        lower == IF l1 >= Half \div 2 THEN (l1 - Half) * Half + l0
                                     ELSE l1 * Half + l0
    IN IF wide THEN <<upper, lower>>
               ELSE <<IF lower < 0 THEN -1 ELSE 0, lower>>

\* a * b is within the range of int
FitsInt(a, b) ==
    IntProduct(a, b, TRUE)[1] = 0 /\ IntProduct(a, b, TRUE)[2] >= 0

\* how the build can evaluate the product of line 357 for the packet
ProductOutcomes(i, packet) ==
    IF FitsInt(DVD_TIME_TO_MSEC(PacketPts(m_hints[i], packet)), 1000000)
      THEN {FALSE} ELSE BOOLEAN

\* lines 354-358: the payload of Feed; pts is the lower word of the 64-bit
\* integer of the payload, ptsUpper its upper word
FeedPayload(size, pts, wide) ==
    LET ns == IntProduct(DVD_TIME_TO_MSEC(pts), 1000000, wide)
    IN [bufferSize |-> size, pts |-> ns[2], ptsUpper |-> ns[1], esData |-> 1]

\* lines 362-370: the class AddData puts a Feed status in
VideoClass(result) ==
    IF Found(result, "Ok") THEN "accepted"
    ELSE IF Found(result, "BufferFull") THEN "backpressure"
    ELSE "error"

\* lines 362-374: what AddData returns for a Feed status
FeedReturn(result) ==
    IF Found(result, "Ok") THEN TRUE
    ELSE IF Found(result, "BufferFull") THEN FALSE
    ELSE TRUE

\* lines 345-372: the commands AddData issues once past the gate
AddDataCmds(state, buffer, pts, status, wide) ==
    (IF state = STARFISH_STATE_FLUSHED /\ SeekWanted(pts)
       THEN <<Cmd("Seek", ToString(DVD_TIME_TO_MSEC(pts)), "void")>>
       ELSE <<>>)
    \o (IF HasData(buffer)
          THEN <<Cmd("Feed", FeedPayload(buffer[2], pts, wide), status)>>
          ELSE <<>>)

\* what the converter can make of the packet: <<keyframe seen, converted>>
ConverterAnswers(i, packet) ==
    IF Converts(i, packet) THEN BOOLEAN \X BOOLEAN ELSE {<<FALSE, FALSE>>}

\* what the engine can answer to the Feed of the packet, if one is issued
FeedAnswers(i, packet, conv) ==
    IF m_opened[i] /\ ~Gated(i, packet, conv[1])
       /\ HasData(Buffer(i, packet, conv[2]))
      THEN FeedStatuses ELSE {{}}

\* AddData, lines 310-375.  keyframe, convOk: what the converter makes of the
\* packet; status: what Feed answers; wide: how the product of line 357 is
\* evaluated
AddData(i, packet, keyframe, convOk, status, wide) ==
    /\ pc[i] = "idle"
    /\ LET pts == PacketPts(m_hints[i], packet)
           bs == BitstreamAfter(i, packet, keyframe)
           gated == Gated(i, packet, keyframe)
           buffer == Buffer(i, packet, convOk)
           cmds == AddDataCmds(m_state[i], buffer, pts, status, wide)
           info == [packet |-> packet, opened |-> m_opened[i],
                    data |-> HasData(buffer)]
       IN
        IF ~m_opened[i]
          THEN /\ call' = [inst |-> i, op |-> "AddData", ret |-> Bool(FALSE),
                           cmds |-> <<>>, pre |-> m_state[i], arg |-> info]
               /\ UNCHANGED <<m_state, m_bitstream, seeks>>
          ELSE IF gated
          THEN /\ m_bitstream' = [m_bitstream EXCEPT ![i] = bs]
               /\ call' = [inst |-> i, op |-> "AddData", ret |-> Bool(TRUE),
                           cmds |-> <<>>, pre |-> m_state[i], arg |-> info]
               /\ UNCHANGED <<m_state, seeks>>
          ELSE /\ m_bitstream' = [m_bitstream EXCEPT ![i] = bs]
               /\ m_state' = [m_state EXCEPT ![i] = AfterFirstBuffer(@)]
               /\ seeks' = [seeks EXCEPT ![i] =
                      IF Issued(cmds, "Seek") # {} /\ @ < SeekCap
                        THEN @ + 1 ELSE @]
               /\ call' = [inst |-> i, op |-> "AddData",
                           ret |-> IF HasData(buffer)
                                     THEN Bool(FeedReturn(status))
                                     ELSE Bool(TRUE),
                           cmds |-> cmds, pre |-> m_state[i], arg |-> info]
    /\ UNCHANGED <<m_InstanceGuard, m_opened, m_hints, m_current_playtime, pc,
                   hints, loaded, playtime, loadCompleted, openRes,
                   firstOpensOnly, lastPicture, m_codecControlFlags,
                   m_videobuffer, disposed,
                   lastControl>>
    /\ UNCHANGED audioVars

-----------------------------------------------------------------------------
(* Reset *)

\* CBitstreamConverter::ResetStartDecode, line 391
ResetStartDecode(bs) == IF bs = "null" THEN bs ELSE "wait"

\* a Reset that leaves the state as it is
ResetStateKept(state) == state

\* line 385: the state Reset leaves behind
ResetState(state) == STARFISH_STATE_FLUSHED

\* Reset, lines 377-392
Reset(i) ==
    /\ pc[i] = "idle"
    /\ IF ~m_opened[i]
         THEN /\ call' = [inst |-> i, op |-> "Reset", ret |-> "void",
                          cmds |-> <<>>, pre |-> m_state[i], arg |-> FALSE]
              /\ UNCHANGED <<m_state, m_bitstream, seeks, m_videobuffer>>
         ELSE /\ m_state' = [m_state EXCEPT ![i] = ResetState(@)]
              /\ m_videobuffer' = [m_videobuffer EXCEPT ![i] = InvalidatePts(@)]
              /\ m_bitstream' = [m_bitstream EXCEPT ![i] = ResetStartDecode(@)]
              /\ seeks' = [seeks EXCEPT ![i] = 0]
              /\ call' = [inst |-> i, op |-> "Reset", ret |-> "void",
                          cmds |-> <<Cmd("flush", "", "void")>>,
                          pre |-> m_state[i], arg |-> TRUE]
    /\ UNCHANGED <<m_InstanceGuard, m_opened, m_hints, m_current_playtime, pc,
                   hints, loaded, playtime, loadCompleted, openRes,
                   firstOpensOnly, lastPicture, m_codecControlFlags, disposed,
                   lastControl>>
    /\ UNCHANGED audioVars

-----------------------------------------------------------------------------
(* Reconfigure *)

\* the descriptors Reconfigure is called with
ReconfigureSet == HintsSet \cup {[H264Hints EXCEPT !.extradata = FALSE],
                                 [VP9Hints EXCEPT !.extradata = TRUE],
                                 [H264Hints EXCEPT !.height = 720]}

\* CDVDStreamInfo::Equal under COMPARE_ALL & ~(COMPARE_ID | COMPARE_EXTRADATA):
\* every compared field of the two descriptors agrees
EqualHints(a, b) ==
    [a EXCEPT !.extradata = FALSE] = [b EXCEPT !.extradata = FALSE]

\* a Reconfigure that stores the descriptor whatever the comparison says
ReconfigureHintsAlways(old, new) == new

\* lines 396-404: the descriptor Reconfigure leaves in m_hints
ReconfigureHints(old, new) == IF EqualHints(old, new) THEN new ELSE old

\* Reconfigure, lines 394-405
Reconfigure(i, h) ==
    /\ pc[i] = "idle"
    /\ m_hints' = [m_hints EXCEPT ![i] = ReconfigureHints(@, h)]
    /\ call' = [inst |-> i, op |-> "Reconfigure",
                ret |-> Bool(EqualHints(m_hints[i], h)), cmds |-> <<>>,
                pre |-> m_state[i],
                arg |-> [hints |-> h, old |-> m_hints[i],
                         opened |-> m_opened[i], guard |-> m_InstanceGuard]]
    /\ UNCHANGED <<m_InstanceGuard, m_opened, m_state, m_bitstream,
                   m_current_playtime, m_codecControlFlags, m_videobuffer, pc,
                   hints, loaded, playtime, loadCompleted, openRes,
                   firstOpensOnly, seeks, lastPicture, disposed,
                   lastControl>>
    /\ UNCHANGED audioVars

-----------------------------------------------------------------------------
(* PlayerCallback, on the engine's thread *)

PF_EVENT_TYPE_STR_STATE_UPDATE__LOADCOMPLETED == "LOADCOMPLETED"

\* the event types the engine delivers
EventTypes == {PF_EVENT_TYPE_STR_STATE_UPDATE__LOADCOMPLETED, "FRAMEREADY",
               "STR_STATE_UPDATE__PLAYING"}

\* a callback that leaves the state alone
CallbackStateKept(type, state) == state

\* a callback that flushes on every event
CallbackStateAlways(type, state) == STARFISH_STATE_FLUSHED

\* lines 559-564: the state the callback leaves behind
CallbackState(type, state) ==
    IF type = PF_EVENT_TYPE_STR_STATE_UPDATE__LOADCOMPLETED
      THEN STARFISH_STATE_FLUSHED
      ELSE state

\* PlayerCallback, lines 549-566.  The engine sends LOADCOMPLETED once per
\* successful Load, and other events while the session is loaded.
PlayerCallback(i, type) ==
    /\ loaded[i]
    /\ type = PF_EVENT_TYPE_STR_STATE_UPDATE__LOADCOMPLETED => loadCompleted[i]
    /\ m_state' = [m_state EXCEPT ![i] = CallbackState(type, @)]
    /\ loadCompleted' = [loadCompleted EXCEPT ![i] =
           IF type = PF_EVENT_TYPE_STR_STATE_UPDATE__LOADCOMPLETED
             THEN FALSE ELSE @]
    /\ call' = [inst |-> i, op |-> "PlayerCallback", ret |-> "void",
                cmds |-> IF type = PF_EVENT_TYPE_STR_STATE_UPDATE__LOADCOMPLETED
                           THEN <<Cmd("Play", "", "void")>> ELSE <<>>,
                pre |-> m_state[i], arg |-> type]
    /\ UNCHANGED <<m_InstanceGuard, m_opened, m_hints, m_bitstream,
                   m_current_playtime, pc, hints, loaded, playtime, openRes,
                   firstOpensOnly, seeks, lastPicture, m_codecControlFlags,
                   m_videobuffer, disposed,
                   lastControl>>
    /\ UNCHANGED audioVars

-----------------------------------------------------------------------------
(* GetPicture *)

\* the engine advances its position counter while the session is loaded
EngineAdvance(i) ==
    /\ loaded[i]
    /\ playtime[i] < MaxTicks * NsPerMsec
    /\ playtime' = [playtime EXCEPT ![i] = @ + NsPerMsec]
    /\ UNCHANGED <<m_InstanceGuard, m_opened, m_state, m_hints, m_bitstream,
                   m_current_playtime, pc, hints, loaded, loadCompleted, call,
                   openRes, firstOpensOnly, seeks, lastPicture,
                   m_codecControlFlags, m_videobuffer, disposed,
                   lastControl>>
    /\ UNCHANGED audioVars

\* a poll that reports a picture on every call
AlwaysNewPicture(currentPlaytime, marker) == FALSE

\* line 421: the polled position shows no new picture
NoNewPicture(currentPlaytime, marker) == currentPlaytime = marker

\* GetPicture, lines 407-424: the early returns, the poll of the position
\* (line 418) and the update of the marker.  The read of line 416 is only
\* logged.
GetPictureBegin(i) ==
    /\ pc[i] = "idle"
    /\ LET currentPlaytime == playtime[i]
           info == [marker |-> m_current_playtime[i], read |-> currentPlaytime,
                    opened |-> m_opened[i]]
       IN
        IF ~m_opened[i]
          THEN /\ call' = [inst |-> i, op |-> "GetPicture", ret |-> VC_NONE,
                           cmds |-> <<>>, pre |-> m_state[i], arg |-> info]
               /\ UNCHANGED <<m_current_playtime, pc>>
          ELSE IF m_state[i] = STARFISH_STATE_FLUSHED
                  \/ NoNewPicture(currentPlaytime, m_current_playtime[i])
          THEN /\ call' = [inst |-> i, op |-> "GetPicture", ret |-> VC_BUFFER,
                           cmds |-> <<>>, pre |-> m_state[i], arg |-> info]
               /\ UNCHANGED <<m_current_playtime, pc>>
          ELSE /\ m_current_playtime' =
                      [m_current_playtime EXCEPT ![i] = currentPlaytime]
               /\ pc' = [pc EXCEPT ![i] = "getpic"]
               /\ call' = [inst |-> i, op |-> "GetPicture", ret |-> "pending",
                           cmds |-> <<>>, pre |-> m_state[i], arg |-> info]
    /\ UNCHANGED <<m_InstanceGuard, m_opened, m_state, m_hints, m_bitstream,
                   hints, loaded, playtime, loadCompleted, openRes,
                   firstOpensOnly, seeks, lastPicture, m_codecControlFlags,
                   m_videobuffer, disposed,
                   lastControl>>
    /\ UNCHANGED audioVars

\* line 431: the position the picture's pts is converted from
PictureSource(marker, position) == position

\* GetPicture, lines 426-436: the picture is filled in and returned
GetPictureEnd(i) ==
    /\ pc[i] = "getpic"
    /\ pc' = [pc EXCEPT ![i] = "idle"]
    /\ LET pts == PlaytimeToPts(PictureSource(m_current_playtime[i], playtime[i]))
       IN
        /\ lastPicture' = [lastPicture EXCEPT ![i] = {pts}]
        /\ call' = [inst |-> i, op |-> "GetPicture", ret |-> VC_PICTURE,
                    cmds |-> <<>>, pre |-> STARFISH_STATE_RUNNING,
                    arg |-> [pts |-> pts, previous |-> lastPicture[i]]]
    /\ UNCHANGED <<m_InstanceGuard, m_opened, m_state, m_hints, m_bitstream,
                   m_current_playtime, hints, loaded, playtime, loadCompleted,
                   openRes, firstOpensOnly, seeks, m_codecControlFlags,
                   m_videobuffer, disposed,
                   lastControl>>
    /\ UNCHANGED audioVars

-----------------------------------------------------------------------------
(* SetCodecControl, SignalEndOfStream *)

\* a command on every change of the flags word
ControlCmdsOnChange(old, flags) ==
    IF DVD_CODEC_CTRL_DRAIN \in flags THEN <<Cmd("Pause", "", "void")>>
                                      ELSE <<Cmd("Play", "", "void")>>

\* lines 448-454: the commands a change of the flags word issues
ControlCmds(old, flags) ==
    (IF DVD_CODEC_CTRL_DRAIN \in flags /\ DVD_CODEC_CTRL_DRAIN \notin old
       THEN <<Cmd("Pause", "", "void")>> ELSE <<>>)
    \o (IF DVD_CODEC_CTRL_DRAIN \notin flags /\ DVD_CODEC_CTRL_DRAIN \in old
          THEN <<Cmd("Play", "", "void")>> ELSE <<>>)

\* SetCodecControl, lines 441-458.  old: the value read from
\* m_codecControlFlags, which the constructor does not initialise
SetCodecControl(i, flags, old) ==
    /\ pc[i] = "idle"
    /\ old \in m_codecControlFlags[i]
    /\ m_codecControlFlags' = [m_codecControlFlags EXCEPT ![i] =
           IF old # flags THEN {flags} ELSE @]
    /\ call' = [inst |-> i, op |-> "SetCodecControl", ret |-> "void",
                cmds |-> IF old # flags THEN ControlCmds(old, flags) ELSE <<>>,
                pre |-> m_state[i],
                arg |-> [flags |-> flags, old |-> old, opened |-> m_opened[i],
                         last |-> lastControl[i]]]
    /\ lastControl' = [lastControl EXCEPT ![i] =
           IF (loaded[i] \/ disposed[i]) /\ old # flags
              /\ ControlCmds(old, flags) # <<>>
             THEN ControlCmds(old, flags)[Len(ControlCmds(old, flags))].cmd
             ELSE @]
    /\ UNCHANGED <<m_InstanceGuard, m_opened, m_state, m_hints, m_bitstream,
                   m_current_playtime, m_videobuffer, pc, hints, loaded,
                   playtime, loadCompleted, openRes, firstOpensOnly, seeks,
                   lastPicture, disposed>>
    /\ UNCHANGED audioVars

\* SignalEndOfStream, lines 465-468
SignalEndOfStream(i) ==
    /\ pc[i] = "idle"
    /\ call' = [inst |-> i, op |-> "SignalEndOfStream", ret |-> "void",
                cmds |-> <<Cmd("pushEOS", "", "void")>>,
                pre |-> m_state[i], arg |-> [opened |-> m_opened[i]]]
    /\ UNCHANGED <<m_InstanceGuard, m_opened, m_state, m_hints, m_bitstream,
                   m_current_playtime, m_codecControlFlags, m_videobuffer, pc,
                   hints, loaded, playtime, loadCompleted, openRes,
                   firstOpensOnly, seeks, lastPicture, disposed,
                   lastControl>>
    /\ UNCHANGED audioVars

-----------------------------------------------------------------------------
(* The audio sink: Initialize, Deinitialize *)

\* lines 90-91: Initialize forces the frame size of a raw format to 1
StoredFormat(format) ==
    IF format.m_dataFormat = AE_FMT_RAW
      THEN [format EXCEPT !.m_frameSize = 1] ELSE format

\* an Initialize that validates nothing
LoadableAlways(format) == TRUE

\* lines 90, 115-141: Initialize gets as far as Load
Loadable(format) ==
    format.m_dataFormat = AE_FMT_RAW /\ format.m_type \in SinkStreamTypes

\* Initialize, lines 85-184.  loadOk: what Load returns
Initialize(format, loadOk) ==
    /\ sink = "idle"
    /\ m_format' = StoredFormat(format)
    /\ m_pts' = 0
    /\ created' = (Loadable(format) /\ loadOk)
    /\ audioLoaded' = IF Loadable(format) /\ loadOk THEN TRUE ELSE audioLoaded
    /\ audioLoadCompleted' =
           IF Loadable(format) /\ loadOk THEN TRUE ELSE audioLoadCompleted
    /\ audioCall' = [op |-> "Initialize", done |-> TRUE,
                     ret |-> IF Loadable(format) /\ loadOk THEN 1 ELSE 0,
                     cmds |-> IF Loadable(format)
                                THEN <<Cmd("notifyForeground", "", "void"),
                                       Cmd("Load", format.m_type, Bool(loadOk))>>
                                ELSE <<>>,
                     pre |-> m_pts, arg |-> format]
    /\ UNCHANGED <<m_delay, m_playtime, sink, local>>
    /\ UNCHANGED videoVars

\* Deinitialize, lines 186-189; nothing keeps it from running while
\* AddPackets is in its loop on another thread
Deinitialize ==
    /\ created
    /\ audioLoaded' = FALSE
    /\ audioLoadCompleted' = FALSE
    /\ audioCall' = [op |-> "Deinitialize", done |-> TRUE, ret |-> 0,
                     cmds |-> <<Cmd("Unload", "", "void")>>,
                     pre |-> m_pts, arg |-> m_format]
    /\ UNCHANGED <<m_format, m_pts, m_delay, m_playtime, sink, local, created>>
    /\ UNCHANGED videoVars

-----------------------------------------------------------------------------
(* The audio sink: AddPackets *)

\* lines 209-213: the payload of Feed; the address is kept relative to data[0]
AudioPayload(format, frames, offset, pts) ==
    [bufferAddr |-> offset * format.m_frameSize,
     bufferSize |-> frames * format.m_frameSize,
     pts |-> pts, esData |-> 2]

\* lines 215-219: the duration of the buffer, ns.  GetDuration() is in
\* milliseconds; the format keeps it in microseconds.  The other branch is
\* evaluated in unsigned int.
FrameTime(format, frames) ==
    IF format.m_dataFormat = AE_FMT_RAW
      THEN format.duration * 1000
      ELSE ((1000000000 * frames) % (65536 * 65536)) \div format.m_sampleRate

\* the accumulator moved after the Feed answer instead of before it
AdvancePtsNever(pts, frames, frameTime) == pts

\* lines 222-223: the accumulated PTS after the buffer
AdvancePts(pts, frames, frameTime) ==
    IF frames # 1024 THEN pts + frameTime ELSE pts

\* a loop that gives up on the first BufferFull
RetriesNever(result) == FALSE

\* a loop that goes on until the engine accepts
RetriesUntilOk(result) == ~Found(result, "Ok")

\* line 227: the loop condition
Retries(result) == Found(result, "BufferFull")

\* line 229: the argument of usleep, microseconds
SleepTime(frameTime) == frameTime \div 1000

\* lines 227-238: the class AddPackets puts a Feed status in
AudioClass(result) ==
    IF Found(result, "BufferFull") THEN "backpressure"
    ELSE IF Found(result, "Ok") THEN "accepted"
    ELSE "error"

\* lines 233-238: what AddPackets returns for the last Feed status
PacketsReturn(result, frames) == IF Found(result, "Ok") THEN frames ELSE 0

\* what the engine can answer to the n-th Feed of one buffer
AudioFeedAnswers(n) ==
    IF n < MaxFeeds THEN FeedStatuses
                    ELSE {st \in FeedStatuses : ~Found(st, "BufferFull")}

\* AddPackets, lines 204-226 and, when the loop is not entered, 233-239
AddPacketsBegin(frames, offset, status) ==
    /\ sink = "idle"
    /\ created
    /\ m_pts < MaxPackets * FrameTime(m_format, frames)
    /\ LET payload == AudioPayload(m_format, frames, offset, m_pts)
           frameTime == FrameTime(m_format, frames)
       IN
        /\ m_pts' = AdvancePts(m_pts, frames, frameTime)
        /\ audioCall' = [op |-> "AddPackets", done |-> ~Retries(status),
                         ret |-> IF Retries(status)
                                   THEN 0 ELSE PacketsReturn(status, frames),
                         cmds |-> <<Cmd("Feed", payload, status)>>,
                         pre |-> m_pts,
                         arg |-> [frames |-> frames, offset |-> offset]]
        /\ IF Retries(status)
             THEN /\ sink' = "retry"
                  /\ local' = [payload |-> payload, frames |-> frames,
                               offset |-> offset, frameTime |-> frameTime,
                               cmds |-> <<Cmd("Feed", payload, status)>>]
             ELSE UNCHANGED <<sink, local>>
    /\ UNCHANGED <<m_format, m_delay, m_playtime, created, audioLoaded,
                   audioLoadCompleted>>
    /\ UNCHANGED videoVars

\* AddPackets, lines 227-239: one turn of the loop and, when it ends, the
\* return
AddPacketsRetry(status) ==
    /\ sink = "retry"
    /\ LET cmds == local.cmds
                     \o <<Cmd("usleep", SleepTime(local.frameTime), "void"),
                          Cmd("Feed", local.payload, status)>>
       IN
        /\ audioCall' = [op |-> "AddPackets", done |-> ~Retries(status),
                         ret |-> IF Retries(status)
                                   THEN 0
                                   ELSE PacketsReturn(status, local.frames),
                         cmds |-> cmds,
                         pre |-> local.payload.pts,
                         arg |-> [frames |-> local.frames,
                                  offset |-> local.offset]]
        /\ IF Retries(status)
             THEN /\ local' = [local EXCEPT !.cmds = cmds]
                  /\ UNCHANGED sink
             ELSE /\ sink' = "idle"
                  /\ local' = NoLocal
    /\ UNCHANGED <<m_format, m_pts, m_delay, m_playtime, created, audioLoaded,
                   audioLoadCompleted>>
    /\ UNCHANGED videoVars

-----------------------------------------------------------------------------
(* The audio sink: AddPause, Drain *)

\* AddPause, lines 241-248
AddPause(millis) ==
    /\ sink = "idle"
    /\ created
    /\ audioCall' = [op |-> "AddPause", done |-> TRUE, ret |-> 0,
                     cmds |-> <<Cmd("Pause", "", "void"),
                                Cmd("usleep", millis * 1000, "void"),
                                Cmd("Play", "", "void")>>,
                     pre |-> m_pts, arg |-> [millis |-> millis]]
    /\ UNCHANGED <<m_format, m_pts, m_delay, m_playtime, sink, local, created,
                   audioLoaded, audioLoadCompleted>>
    /\ UNCHANGED videoVars

\* Drain, lines 256-259
Drain ==
    /\ sink = "idle"
    /\ created
    /\ audioCall' = [op |-> "Drain", done |-> TRUE, ret |-> 0,
                     cmds |-> <<Cmd("flush", "", "void")>>,
                     pre |-> m_pts, arg |-> [millis |-> 0]]
    /\ UNCHANGED <<m_format, m_pts, m_delay, m_playtime, sink, local, created,
                   audioLoaded, audioLoadCompleted>>
    /\ UNCHANGED videoVars

-----------------------------------------------------------------------------
(* The audio sink: PlayerCallback, on the engine's thread *)

\* the event types the engine delivers to the sink
AudioEventTypes == {PF_EVENT_TYPE_FRAMEREADY,
                    PF_EVENT_TYPE_STR_STATE_UPDATE__LOADCOMPLETED,
                    "STR_STATE_UPDATE__PLAYING"}

\* the values an event of the type carries
EventValues(type) == IF type = PF_EVENT_TYPE_FRAMEREADY THEN Playtimes ELSE {0}

\* an estimate that ignores the reported playtime
DelayFromPts(delay, type, pts, numValue) ==
    IF type = PF_EVENT_TYPE_FRAMEREADY THEN pts ELSE delay

\* lines 276-278: the delay estimate the callback leaves behind
DelayEstimate(delay, type, pts, numValue) ==
    IF type = PF_EVENT_TYPE_FRAMEREADY THEN pts - numValue ELSE delay

\* line 277: the playtime the callback leaves behind
LastPlaytime(old, type, numValue) ==
    IF type = PF_EVENT_TYPE_FRAMEREADY THEN numValue ELSE old

\* PlayerCallback, lines 271-290.  The engine sends LOADCOMPLETED once per
\* successful Load, and other events while the session is loaded.
AudioPlayerCallback(type, numValue) ==
    /\ audioLoaded
    /\ type = PF_EVENT_TYPE_STR_STATE_UPDATE__LOADCOMPLETED => audioLoadCompleted
    /\ m_playtime' = LastPlaytime(m_playtime, type, numValue)
    /\ m_delay' = DelayEstimate(m_delay, type, m_pts, numValue)
    /\ audioLoadCompleted' =
           IF type = PF_EVENT_TYPE_STR_STATE_UPDATE__LOADCOMPLETED
             THEN FALSE ELSE audioLoadCompleted
    /\ audioCall' = [op |-> "PlayerCallback", done |-> TRUE, ret |-> 0,
                     cmds |-> IF type = PF_EVENT_TYPE_STR_STATE_UPDATE__LOADCOMPLETED
                                THEN <<Cmd("Play", "", "void")>> ELSE <<>>,
                     pre |-> m_pts,
                     arg |-> [type |-> type, numValue |-> numValue]]
    /\ UNCHANGED <<m_format, m_pts, sink, local, created, audioLoaded>>
    /\ UNCHANGED videoVars

-----------------------------------------------------------------------------
(* The audio sink with the engine's thread *)

NextAudio ==
    \/ \E f \in AudioFormats : \E lo \in BOOLEAN : Initialize(f, lo)
    \/ Deinitialize
    \/ \E n \in FrameCounts : \E o \in Offsets : \E st \in AudioFeedAnswers(1) :
           AddPacketsBegin(n, o, st)
    \/ \E st \in AudioFeedAnswers((Len(local.cmds) + 3) \div 2) :
           AddPacketsRetry(st)
    \/ \E ms \in {20} : AddPause(ms)
    \/ Drain
    \/ \E t \in AudioEventTypes : \E v \in EventValues(t) :
           AudioPlayerCallback(t, v)

SpecAudio == Init /\ [][NextAudio]_vars

\* one turn of the loop of AddPackets, lines 227-231: usleep returns and Feed
\* is called again
LoopTurn ==
    \E st \in AudioFeedAnswers((Len(local.cmds) + 3) \div 2) : AddPacketsRetry(st)

\* the sink with a calling thread that is scheduled: a thread in the loop
\* takes its next turn
SpecAudioLive == SpecAudio /\ WF_vars(LoopTurn)

-----------------------------------------------------------------------------
(* One session: every operation on one instance, with the engine's thread *)

Next ==
    \E i \in Session :
        \/ \E h \in HintsSet : OpenEnter(i, h)
        \/ \E us, uss, bo, sd, lo \in BOOLEAN : OpenBody(i, us, uss, bo, sd, lo)
        \/ Dispose(i)
        \/ \E p \in Packets : \E c \in ConverterAnswers(i, p) :
               \E st \in FeedAnswers(i, p, c) : \E w \in ProductOutcomes(i, p) :
                  AddData(i, p, c[1], c[2], st, w)
        \/ Reset(i)
        \/ \E t \in EventTypes : PlayerCallback(i, t)
        \/ EngineAdvance(i)
        \/ GetPictureBegin(i)
        \/ GetPictureEnd(i)
        \/ \E f \in DrainFlags : \E o \in m_codecControlFlags[i] :
               SetCodecControl(i, f, o)
        \/ SignalEndOfStream(i)

Spec == Init /\ [][Next]_vars

-----------------------------------------------------------------------------
(* The guard protocol: Open and Dispose on every instance *)

NextGuard ==
    \E i \in Instances :
        \/ \E h \in HintsSet : OpenEnter(i, h)
        \/ \E us, uss, bo, sd, lo \in BOOLEAN : OpenBody(i, us, uss, bo, sd, lo)
        \/ Dispose(i)

SpecGuard == Init /\ [][NextGuard]_vars

-----------------------------------------------------------------------------
(* The codec control: Open, Dispose and SetCodecControl with every flags     *)
(* word, and the engine's events, on one instance                            *)

NextControl ==
    \E i \in Session :
        \/ \E h \in HintsSet : OpenEnter(i, h)
        \/ \E us, uss, bo, sd, lo \in BOOLEAN : OpenBody(i, us, uss, bo, sd, lo)
        \/ Dispose(i)
        \/ \E t \in EventTypes : PlayerCallback(i, t)
        \/ \E f \in ControlFlags : \E o \in m_codecControlFlags[i] :
               SetCodecControl(i, f, o)

SpecControl == Init /\ [][NextControl]_vars

-----------------------------------------------------------------------------
(* The two controllers.  The video controller and the audio sink share no    *)
(* field and no engine session, so a behaviour drives one of them: the       *)
(* video controller through its whole interface but the position polls, or   *)
(* the sink.                                                                 *)

\* no operation of the audio sink has run
VideoTurn == audioCall.op = "none"

\* no operation of the video controller has run
AudioTurn == call.op = "none" /\ \A i \in Instances : pc[i] = "idle"

NextControllers ==
    \/ \E i \in Session : \E h \in HintsSet : VideoTurn /\ OpenEnter(i, h)
    \/ \E i \in Session : \E us, uss, bo, sd, lo \in BOOLEAN :
           VideoTurn /\ OpenBody(i, us, uss, bo, sd, lo)
    \/ \E i \in Session : VideoTurn /\ Dispose(i)
    \/ \E i \in Session : \E p \in Packets \cup LongPackets :
           \E c \in ConverterAnswers(i, p) : \E st \in FeedAnswers(i, p, c) :
              \E w \in ProductOutcomes(i, p) :
                 VideoTurn /\ AddData(i, p, c[1], c[2], st, w)
    \/ \E i \in Session : VideoTurn /\ Reset(i)
    \/ \E i \in Session : \E h \in ReconfigureSet :
           VideoTurn /\ Reconfigure(i, h)
    \/ \E i \in Session : \E t \in EventTypes :
           VideoTurn /\ PlayerCallback(i, t)
    \/ \E i \in Session : VideoTurn /\ SignalEndOfStream(i)
    \/ \E f \in AudioFormats : \E lo \in BOOLEAN : AudioTurn /\ Initialize(f, lo)
    \/ AudioTurn /\ Deinitialize
    \/ \E n \in FrameCounts : \E o \in Offsets : \E st \in AudioFeedAnswers(1) :
           AudioTurn /\ AddPacketsBegin(n, o, st)
    \/ \E st \in AudioFeedAnswers((Len(local.cmds) + 3) \div 2) :
           AudioTurn /\ AddPacketsRetry(st)
    \/ \E ms \in {20} : AudioTurn /\ AddPause(ms)
    \/ AudioTurn /\ Drain
    \/ \E t \in AudioEventTypes : \E v \in EventValues(t) :
           AudioTurn /\ AudioPlayerCallback(t, v)

SpecControllers == Init /\ [][NextControllers]_vars

-----------------------------------------------------------------------------
(* Properties *)

Opened == {i \in Instances : m_opened[i]}

\* the last operation was a completed AddData on an open instance
FedOpen == call.op = "AddData" /\ call.arg.opened

\* the converter of the instance fed last still cannot start decoding
GateHeld == call.arg.packet.pData /\ m_bitstream[call.inst] = "wait"

\* the Feed commands of the last operation the engine did not accept
Refused == {k \in Issued(call.cmds, "Feed") :
                ~Found(call.cmds[k].result, "Ok")}

\* C1: when each instance calls Open once and no Open that took the guard
\* fails on its descriptor, a setting or Load, exactly one Open returns
\* success and every other one is rejected at the guard; and never are two
\* instances open at the same time.
C1_ExactlyOneOpenSucceeds ==
    /\ Cardinality(Opened) <= 1
    /\ (firstOpensOnly /\ \A i \in Instances : openRes[i] \in {"ok", "guard"})
         => /\ Cardinality({i \in Instances : openRes[i] = "ok"}) = 1
            /\ Opened = {i \in Instances : openRes[i] = "ok"}

C1_Witness ==
    /\ firstOpensOnly
    /\ openRes["v1"] = "guard" /\ openRes["v2"] = "ok"
    /\ m_opened["v2"] /\ ~m_opened["v1"]

\* C2: an Open that took the guard and then returned failure (null size,
\* both settings off, unknown codec, Load refused) has released the guard
\* when it returns.
C2_FailedOpenReleasesGuard ==
    (call.op = "Open" /\ call.ret = "false"
        /\ openRes[call.inst] \in {"size", "setting", "codec", "load"})
      => ~m_InstanceGuard

C2_Witness ==
    /\ call.op = "Open" /\ call.ret = "false"
    /\ openRes[call.inst] = "load"
    /\ Issued(call.cmds, "Load") # {}
    /\ ~m_InstanceGuard

\* C3: the guard is held only while some instance is open or is executing
\* Open, so that once every instance is disposed the next Open succeeds.
C3_GuardHeldOnlyWhileOpen ==
    m_InstanceGuard => \E i \in Instances : m_opened[i] \/ pc[i] = "open"

\* C4: between one entry into Flushed (a successful Open or a Reset) and the
\* next Reset at most one Seek is issued.
C4_AtMostOneSeekPerSession == \A i \in Instances : seeks[i] <= 1

\* C5: a Running session returns to Flushed only through Reset.
C5_RunningLeftOnlyByReset ==
    [][\A i \in Instances :
          (m_state[i] = STARFISH_STATE_RUNNING
             /\ m_state'[i] = STARFISH_STATE_FLUSHED)
            => (call'.op = "Reset" /\ call'.inst = i)]_vars

C7_OnlyAcceptedBufferStartsRunning ==
    (FedOpen /\ call.pre = STARFISH_STATE_FLUSHED
        /\ (~(call.arg.packet.pData /\ call.arg.packet.iSize # 0)
              \/ Refused # {}))
      => m_state[call.inst] = STARFISH_STATE_FLUSHED

\* C8: an AddData with a non-empty packet, in state Flushed, whose converter
\* still reports that decoding cannot start issues no command and leaves
\* the state Flushed; once the converter reports readiness the buffer it
\* delivers is fed.
C8_GateSuppressesSubmission ==
    (FedOpen /\ call.pre = STARFISH_STATE_FLUSHED /\ call.arg.packet.pData)
      => /\ GateHeld => /\ call.cmds = <<>>
                        /\ call.ret = "true"
                        /\ m_state[call.inst] = STARFISH_STATE_FLUSHED
         /\ (~GateHeld /\ call.arg.data)
              => Cardinality(Issued(call.cmds, "Feed")) = 1

C8_Witness ==
    /\ FedOpen /\ call.pre = STARFISH_STATE_FLUSHED
    /\ call.arg.packet.pData /\ call.arg.packet.iSize # 0
    /\ call.arg.packet.pts > 0 /\ ~m_hints[call.inst].ptsinvalid
    /\ GateHeld
    /\ call.cmds = <<>>
    /\ m_state[call.inst] = STARFISH_STATE_FLUSHED

\* C9: GetPicture answers VC_NONE when the instance is not open and
\* VC_BUFFER when it is Flushed, both without touching the marker; when open
\* and Running it yields a picture exactly when the polled position differs
\* from the marker, and the marker then holds the polled position.
C9_PictureOnPositionChange ==
    (call.op = "GetPicture" /\ call.ret # VC_PICTURE)
      => LET i == call.inst
             a == call.arg
             running == a.opened /\ call.pre = STARFISH_STATE_RUNNING
         IN /\ call.ret = VC_NONE <=> ~a.opened
            /\ call.ret = "pending" <=> (running /\ a.read # a.marker)
            /\ call.ret = VC_BUFFER
                 <=> (a.opened /\ ~(running /\ a.read # a.marker))
            /\ call.ret = "pending" <=> pc[i] = "getpic"
            /\ m_current_playtime[i] = (IF running THEN a.read ELSE a.marker)

C9_Witness ==
    /\ call.op = "GetPicture" /\ call.ret = "pending"
    /\ call.arg.read = 2 * NsPerMsec /\ call.arg.marker = NsPerMsec
    /\ m_current_playtime[call.inst] = 2 * NsPerMsec
    /\ lastPicture[call.inst] = {PlaytimeToPts(NsPerMsec)}

\* C10: an emitted picture carries the pts converted from the position
\* stored in the marker, and no two pictures carry the same position.
C10_PictureCarriesMarker ==
    (call.op = "GetPicture" /\ call.ret = VC_PICTURE)
      => /\ call.arg.pts = PlaytimeToPts(m_current_playtime[call.inst])
         /\ call.arg.pts \notin call.arg.previous

-----------------------------------------------------------------------------
(* Properties of the Feed paths *)

\* the Feed commands of the last operation or event on the sink
AudioFeeds == Issued(audioCall.cmds, "Feed")

\* those of them the engine answered with BufferFull
AudioFull == {k \in AudioFeeds : Found(audioCall.cmds[k].result, "BufferFull")}

\* an AddPackets has just returned
PacketsDone == audioCall.op = "AddPackets" /\ audioCall.done

\* the status that ended the last AddPackets carries neither token
HardFailure ==
    LET result == audioCall.cmds[Len(audioCall.cmds)].result
    IN ~Found(result, "Ok") /\ ~Found(result, "BufferFull")

\* C11: an AddPackets whose Feed is answered BufferFull n times and then Ok
\* has issued n + 1 Feeds, all with the payload built from the call's
\* arguments and the PTS before the call, has slept once for the buffer's
\* duration between two consecutive Feeds (n sleeps), and returns the full
\* frame count.
C11_RetryUntilAccepted ==
    PacketsDone
      => LET cmds == audioCall.cmds
             a == audioCall.arg
         IN /\ Cardinality(AudioFeeds) = Cardinality(AudioFull) + 1
            /\ Cardinality(Issued(cmds, "usleep")) = Cardinality(AudioFull)
            /\ \A k \in DOMAIN cmds :
                  cmds[k].cmd = (IF k % 2 = 1 THEN "Feed" ELSE "usleep")
            /\ \A k \in AudioFeeds :
                  cmds[k].arg = [bufferAddr |-> a.offset * m_format.m_frameSize,
                                 bufferSize |-> a.frames * m_format.m_frameSize,
                                 pts |-> audioCall.pre, esData |-> 2]
            /\ \A k \in Issued(cmds, "usleep") : cmds[k].arg = m_format.duration
            /\ Found(cmds[Len(cmds)].result, "Ok") => audioCall.ret = a.frames

C11_Witness ==
    /\ PacketsDone
    /\ Len(audioCall.cmds) = 5
    /\ audioCall.cmds[1].result = {"BufferFull"}
    /\ audioCall.cmds[3].result = {"BufferFull"}
    /\ audioCall.cmds[5].result = {"Ok"}
    /\ audioCall.cmds[2].arg = 32000 /\ audioCall.cmds[4].arg = 32000
    /\ audioCall.cmds[5].arg = audioCall.cmds[1].arg
    /\ audioCall.ret = 1536

\* C12: no AddData and no AddPackets returns a rejection to its caller
\* because the engine answered a Feed with BufferFull.
C12_BackpressureNeverSurfaced ==
    /\ (FedOpen /\ \E k \in Refused : Found(call.cmds[k].result, "BufferFull"))
          => call.ret # "false"
    /\ PacketsDone
          => ~Found(audioCall.cmds[Len(audioCall.cmds)].result, "BufferFull")

\* C13: when AddPackets returns 0 because the Feed status carries neither
\* token, the accumulated PTS is what it was before the call.
C13_HardFailureKeepsPts ==
    (PacketsDone /\ HardFailure) => m_pts = audioCall.pre

\* C14: a Feed status with neither token is not retried and the operation's
\* result differs from the one it returns for an accepted buffer (true for
\* AddData, the frame count for AddPackets).
C14_HardFailureReported ==
    /\ (FedOpen /\ \E k \in Refused : ~Found(call.cmds[k].result, "BufferFull"))
          => /\ Cardinality(Issued(call.cmds, "Feed")) = 1
             /\ call.ret # "true"
    /\ (PacketsDone /\ HardFailure)
          => /\ \A k \in AudioFeeds \ AudioFull : k = Len(audioCall.cmds)
             /\ audioCall.ret # audioCall.arg.frames

\* the PTS and the payloads of the last AddPackets
PtsAdvanced ==
    audioCall.op = "AddPackets"
      => /\ m_pts = audioCall.pre
                     + (IF audioCall.arg.frames # 1024
                          THEN m_format.duration * 1000 ELSE 0)
         /\ m_pts >= audioCall.pre
         /\ \A k \in AudioFeeds : audioCall.cmds[k].arg.pts = audioCall.pre

\* C15: after Initialize the accumulated PTS is 0; every AddPackets feeds
\* the PTS accumulated before it and then advances the accumulator by the
\* buffer's duration, or by nothing when the frame count is 1024; and no
\* step other than Initialize lowers the accumulator.
C15_PtsMonotonic ==
    /\ [](audioCall.op = "Initialize" => m_pts = 0)
    /\ []PtsAdvanced
    /\ [][m_pts' < m_pts => audioCall'.op = "Initialize"]_vars

C15_Witness ==
    /\ PacketsDone
    /\ audioCall.arg.frames = 1536 /\ audioCall.pre = 32000000
    /\ audioCall.cmds[1].arg.pts = 32000000
    /\ m_pts = 64000000

\* a FRAMEREADY event has just been delivered to the sink
FrameReady ==
    audioCall.op = "PlayerCallback"
    /\ audioCall.arg.type = PF_EVENT_TYPE_FRAMEREADY

\* C16: a FRAMEREADY event with playtime p leaves p in m_playtime and the
\* accumulated PTS at the time of the event minus p in m_delay; nothing but
\* a FRAMEREADY event changes m_delay.
C16_DelayFromFrameReady ==
    /\ [](FrameReady => /\ m_playtime = audioCall.arg.numValue
                        /\ m_delay = audioCall.pre - audioCall.arg.numValue)
    /\ [][m_delay' # m_delay => FrameReady']_vars

C16_Witness ==
    /\ FrameReady
    /\ audioCall.pre = 32000000 /\ audioCall.arg.numValue = 300000
    /\ m_delay = 31700000 /\ m_playtime = 300000
    /\ sink = "retry"

-----------------------------------------------------------------------------
(* Properties of Dispose, Open and Reset *)

\* C17: Dispose on an open instance issues one Unload and releases the
\* guard; Dispose on an instance that is not open (disposed before, never
\* opened, or left closed by a failed Open) issues nothing and leaves the
\* guard with the instance that holds it.
C17_DisposeIdempotent ==
    call.op = "Dispose"
      => IF call.arg
           THEN /\ Len(call.cmds) = 1 /\ call.cmds[1].cmd = "Unload"
                /\ ~m_InstanceGuard
                /\ ~m_opened[call.inst]
           ELSE /\ call.cmds = <<>>
                /\ (\E j \in Instances \ {call.inst} : m_opened[j])
                      => m_InstanceGuard

C17_Witness ==
    /\ call.op = "Dispose" /\ ~call.arg /\ call.inst = "v1"
    /\ disposed["v1"]
    /\ m_opened["v2"] /\ m_InstanceGuard

\* the operations a disposed controller answers without the engine
InertOps == {"AddData", "Reset", "GetPicture", "SetCodecControl",
             "SignalEndOfStream"}

\* C18: between a Dispose and the next successful Open no operation issues
\* an engine command, AddData returns false and GetPicture returns VC_NONE.
C18_InertAfterDispose ==
    (call.op \in InertOps /\ disposed[call.inst] /\ ~m_opened[call.inst])
      => /\ call.cmds = <<>>
         /\ call.op = "AddData" => call.ret = "false"
         /\ call.op = "GetPicture" => call.ret = VC_NONE

\* C19: when Open returns success the state is Flushed.
C19_OpenLeavesFlushed ==
    (call.op = "Open" /\ call.ret = "true")
      => m_state[call.inst] = STARFISH_STATE_FLUSHED

\* the fields of the controller
Fields == <<m_InstanceGuard, m_opened, m_state, m_hints, m_bitstream,
            m_current_playtime, m_codecControlFlags, m_videobuffer>>

\* C20: Reset on an open controller issues one flush, leaves the state
\* Flushed, the keyframe gate closed again and the cached picture pts
\* invalid; Reset on a controller that is not open issues nothing and
\* changes no field.
C20_ResetFlushes ==
    /\ []((call.op = "Reset" /\ call.arg)
            => /\ Len(call.cmds) = 1 /\ call.cmds[1].cmd = "flush"
               /\ m_state[call.inst] = STARFISH_STATE_FLUSHED
               /\ m_bitstream[call.inst] # "ready"
               /\ m_videobuffer[call.inst] = {DVD_NOPTS_VALUE})
    /\ []((call.op = "Reset" /\ ~call.arg) => call.cmds = <<>>)
    /\ [][(call'.op = "Reset" /\ ~call'.arg) => UNCHANGED Fields]_vars

C20_Witness ==
    /\ call.op = "Reset" /\ call.arg
    /\ call.pre = STARFISH_STATE_RUNNING
    /\ m_state[call.inst] = STARFISH_STATE_FLUSHED
    /\ m_bitstream[call.inst] = "wait"
    /\ m_videobuffer[call.inst] = {DVD_NOPTS_VALUE}
    /\ Len(call.cmds) = 1

-----------------------------------------------------------------------------
(* Properties of Reconfigure and of the event callbacks *)

\* the descriptor fields CDVDStreamInfo::Equal compares in Reconfigure
ComparedFields == {"codec", "width", "height", "ptsinvalid", "cryptoSession"}

\* C21: Reconfigure returns true exactly when the new descriptor agrees with
\* the stored one on every field but the extradata; it then stores the new
\* descriptor, and otherwise leaves the stored one; in both cases the state,
\* the open flag and the guard are as before and no command is issued.
C21_ReconfigureKeepsSession ==
    call.op = "Reconfigure"
      => LET a == call.arg
             same == \A f \in ComparedFields : a.hints[f] = a.old[f]
         IN /\ call.ret = "true" <=> same
            /\ m_hints[call.inst] = (IF same THEN a.hints ELSE a.old)
            /\ call.cmds = <<>>
            /\ m_state[call.inst] = call.pre
            /\ m_opened[call.inst] = a.opened
            /\ m_InstanceGuard = a.guard

C21_Witness ==
    /\ call.op = "Reconfigure" /\ call.ret = "false"
    /\ call.arg.old = H264Hints /\ call.arg.hints.height = 720
    /\ m_hints[call.inst] = H264Hints
    /\ m_opened[call.inst] /\ m_state[call.inst] = STARFISH_STATE_RUNNING

\* the last operation of the video controller was the delivery of the event
VideoEvent(type) == call.op = "PlayerCallback" /\ call.arg = type

\* the last operation of the sink was the delivery of the event
AudioEvent(type) == audioCall.op = "PlayerCallback" /\ audioCall.arg.type = type

\* the step is the delivery of a LOADCOMPLETED event to the sink
AudioLoadCompletedStep ==
    /\ audioLoadCompleted /\ ~audioLoadCompleted'
    /\ audioCall'.op = "PlayerCallback"
    /\ audioCall'.arg.type = PF_EVENT_TYPE_STR_STATE_UPDATE__LOADCOMPLETED

\* C22: the delivery of a LOADCOMPLETED event issues Play, once, and nothing
\* else; on the video controller it leaves the state Flushed, on the sink it
\* leaves the PTS, the delay and the playtime as they were.
C22_LoadCompletedPlays ==
    /\ [](VideoEvent(PF_EVENT_TYPE_STR_STATE_UPDATE__LOADCOMPLETED)
            => /\ call.cmds = <<Cmd("Play", "", "void")>>
               /\ m_state[call.inst] = STARFISH_STATE_FLUSHED)
    /\ [](AudioEvent(PF_EVENT_TYPE_STR_STATE_UPDATE__LOADCOMPLETED)
            => audioCall.cmds = <<Cmd("Play", "", "void")>>)
    /\ [][AudioLoadCompletedStep
            => UNCHANGED <<m_pts, m_delay, m_playtime>>]_vars

C22_Witness ==
    /\ AudioEvent(PF_EVENT_TYPE_STR_STATE_UPDATE__LOADCOMPLETED)
    /\ m_pts > 0 /\ m_pts = audioCall.pre
    /\ Len(audioCall.cmds) = 1

\* the event types the video controller has no case for
VideoUnrecognized ==
    EventTypes \ {PF_EVENT_TYPE_STR_STATE_UPDATE__LOADCOMPLETED}

\* the event types the sink has no case for
AudioUnrecognized ==
    AudioEventTypes \ {PF_EVENT_TYPE_FRAMEREADY,
                       PF_EVENT_TYPE_STR_STATE_UPDATE__LOADCOMPLETED}

\* the fields of the sink
AudioFields == <<m_format, m_pts, m_delay, m_playtime>>

\* C23: the delivery of an event of a type the controller has no case for
\* issues no engine command and changes no field of the controller.
C23_UnrecognizedEventIgnored ==
    /\ []((call.op = "PlayerCallback" /\ call.arg \in VideoUnrecognized)
            => call.cmds = <<>> /\ m_state[call.inst] = call.pre)
    /\ []((audioCall.op = "PlayerCallback"
            /\ audioCall.arg.type \in AudioUnrecognized)
            => audioCall.cmds = <<>> /\ m_pts = audioCall.pre)
    /\ [][(call'.op = "PlayerCallback" /\ call'.arg \in VideoUnrecognized)
            => UNCHANGED Fields]_vars
    /\ [][(audioCall'.op = "PlayerCallback"
            /\ audioCall'.arg.type \in AudioUnrecognized)
            => UNCHANGED AudioFields]_vars

C23_Witness ==
    /\ audioCall.op = "PlayerCallback"
    /\ audioCall.arg.type = "STR_STATE_UPDATE__PLAYING"
    /\ audioCall.cmds = <<>>
    /\ m_pts = 32000000 /\ m_playtime = 300000 /\ m_delay = 31700000

-----------------------------------------------------------------------------
(* Properties of the engine commands of Open, Initialize and AddData *)

\* the ways a video Open fails its validation
ValidationFailures == {"guard", "size", "setting", "codec"}

\* the format is one Initialize refuses
RefusedFormat(format) ==
    format.m_dataFormat # "AE_FMT_RAW"
    \/ format.m_type \notin {"STREAM_TYPE_AC3", "STREAM_TYPE_EAC3"}

\* C24: an Open or an Initialize that succeeded has issued one Load, and one
\* that failed its validation has issued no engine command.
C24_LoadOnce ==
    /\ (call.op = "Open" /\ call.ret = "true")
         => Cardinality(Issued(call.cmds, "Load")) = 1
    /\ (call.op = "Open" /\ openRes[call.inst] \in ValidationFailures)
         => call.ret = "false" /\ call.cmds = <<>>
    /\ (audioCall.op = "Initialize" /\ audioCall.ret = 1)
         => Cardinality(Issued(audioCall.cmds, "Load")) = 1
    /\ (audioCall.op = "Initialize" /\ RefusedFormat(audioCall.arg))
         => audioCall.ret = 0 /\ audioCall.cmds = <<>>

C24_Witness ==
    /\ call.op = "Open" /\ call.ret = "true"
    /\ Len(call.cmds) = 2 /\ call.cmds[2].cmd = "Load"
    /\ call.cmds[2].result = "true"
    /\ m_opened[call.inst] /\ loaded[call.inst]

\* the Feeds of the last operation of the video controller
VideoFeeds == Issued(call.cmds, "Feed")

\* C25: every Feed of AddData carries a buffer that is there and has a size
\* other than 0, with the es-data discriminator; an AddData with a packet of
\* no bytes issues no Feed; pushEOS is issued by SignalEndOfStream alone.
C25_NoEosThroughFeed ==
    /\ call.op = "AddData"
         => /\ \A k \in VideoFeeds : /\ call.cmds[k].arg.bufferSize # 0
                                     /\ call.cmds[k].arg.esData = 1
                                     /\ call.arg.data
            /\ (~call.arg.packet.pData \/ call.arg.packet.iSize = 0)
                 => VideoFeeds = {}
    /\ call.op # "SignalEndOfStream" => Issued(call.cmds, "pushEOS") = {}
    /\ call.op = "SignalEndOfStream" => VideoFeeds = {}

C25_Witness ==
    /\ call.op = "AddData" /\ call.arg.opened
    /\ call.arg.packet.pData /\ call.arg.packet.iSize = 0
    /\ m_bitstream[call.inst] = "ready"
    /\ call.pre = STARFISH_STATE_RUNNING
    /\ call.cmds = <<>>

-----------------------------------------------------------------------------
(* Properties of the loop of AddPackets *)

\* the status of the last command of the sink's last operation
LastStatus == audioCall.cmds[Len(audioCall.cmds)].result

\* C26: AddPackets returns exactly when a Feed is answered without the
\* BufferFull token: every Feed before the last was answered with it, the
\* call has returned iff the last was not, the loop is left by that return
\* alone, and with an engine that stops answering BufferFull a call in the
\* loop returns.
C26_LoopEndsWithBackpressure ==
    /\ [](audioCall.op = "AddPackets"
            => /\ audioCall.done <=> ~Found(LastStatus, "BufferFull")
               /\ \A k \in AudioFeeds : k < Len(audioCall.cmds)
                      => Found(audioCall.cmds[k].result, "BufferFull")
               /\ sink = "retry" <=> ~audioCall.done)
    /\ [][(sink = "retry" /\ sink' # "retry")
            => /\ audioCall'.op = "AddPackets" /\ audioCall'.done
               /\ ~Found(audioCall'.cmds[Len(audioCall'.cmds)].result,
                         "BufferFull")]_vars
    /\ (sink = "retry") ~> (sink = "idle")

C26_Witness ==
    /\ PacketsDone
    /\ Len(audioCall.cmds) = 5
    /\ audioCall.cmds[1].result = {"BufferFull"}
    /\ audioCall.cmds[3].result = {"Ok", "BufferFull"}
    /\ audioCall.cmds[5].result = {}
    /\ audioCall.ret = 0
    /\ sink = "idle"

\* C27: the pts of every Feed payload of AddData is the packet's pts in
\* whole milliseconds times 1000000, a value within the range of the int
\* the product is evaluated in.
C27_PtsProductFits ==
    call.op = "AddData"
      => \A k \in VideoFeeds :
            LET payload == call.cmds[k].arg
                msec == DVD_TIME_TO_MSEC(
                            PacketPts(m_hints[call.inst], call.arg.packet))
            IN /\ payload.ptsUpper = 0 /\ payload.pts >= 0
               /\ payload.pts \div 1000000 = msec
               /\ payload.pts % 1000000 = 0

-----------------------------------------------------------------------------
(* Properties of the order of the engine commands *)

\* the commands that need a loaded session
SessionCmds == {"Feed", "Seek", "flush"}

\* C28: a Feed, a Seek or a flush is issued by a controller only between a
\* Load that succeeded on it and the Unload of the Dispose that follows.
C28_CommandsWithinSession ==
    (call.op # "none" /\ \E k \in DOMAIN call.cmds :
                            call.cmds[k].cmd \in SessionCmds)
      => loaded[call.inst]

C28_Witness ==
    /\ call.op = "AddData" /\ ~firstOpensOnly
    /\ Len(call.cmds) = 2
    /\ call.cmds[1].cmd = "Seek" /\ call.cmds[2].cmd = "Feed"
    /\ loaded[call.inst] /\ m_opened[call.inst]

\* C29: the sink issues no Feed once Unload has been issued: the last Feed
\* of every AddPackets, in its loop or not, went to a loaded session.
C29_NoFeedAfterUnload ==
    (audioCall.op = "AddPackets" /\ AudioFeeds # {}) => audioLoaded

\* the class the controller put the status in, read off what it did with
\* it: AddData returned false on backpressure alone, and logged the error
VideoTreatedAs(result) ==
    IF call.ret = "false" THEN "backpressure" ELSE VideoClass(result)

\* the class the sink put the status in, read off what it did with it
AudioTreatedAs(k) ==
    IF k < Len(audioCall.cmds) \/ ~audioCall.done THEN "backpressure"
    ELSE IF audioCall.ret # 0 THEN "accepted" ELSE "error"

\* C30: the two Feed paths put every status string in the same class: what
\* AddData did with the status of its Feed is what AddPackets does with
\* that status, and the other way round.
C30_SameClassification ==
    /\ call.op = "AddData"
         => \A k \in VideoFeeds :
               VideoTreatedAs(call.cmds[k].result)
                 = AudioClass(call.cmds[k].result)
    /\ audioCall.op = "AddPackets"
         => \A k \in AudioFeeds :
               AudioTreatedAs(k) = VideoClass(audioCall.cmds[k].result)

-----------------------------------------------------------------------------
(* Properties of SetCodecControl *)

\* the last operation was a SetCodecControl on a controller that has been
\* opened successfully
ControlAfterOpen ==
    call.op = "SetCodecControl" /\ (loaded[call.inst] \/ disposed[call.inst])

\* the drain bit of a flags word
Drains(flags) == "DRAIN" \in flags

\* C31: after a successful Open, SetCodecControl issues Pause exactly when
\* the call sets the drain flag that was clear, Play exactly when it clears
\* the drain flag that was set, and nothing otherwise; a Pause follows no
\* command of SetCodecControl since the Open or a Play, a Play follows a
\* Pause.
C31_PausePlayAlternate ==
    ControlAfterOpen
      => LET a == call.arg
             pause == Drains(a.flags) /\ ~Drains(a.old)
             play == ~Drains(a.flags) /\ Drains(a.old)
         IN /\ call.cmds = (IF pause THEN <<Cmd("Pause", "", "void")>>
                            ELSE IF play THEN <<Cmd("Play", "", "void")>>
                            ELSE <<>>)
            /\ Issued(call.cmds, "Pause") # {} => a.last \in {"none", "Play"}
            /\ Issued(call.cmds, "Play") # {} => a.last = "Pause"
            /\ m_codecControlFlags[call.inst] = {a.flags}

C31_Witness ==
    /\ ControlAfterOpen /\ m_opened[call.inst]
    /\ call.cmds = <<Cmd("Pause", "", "void")>>
    /\ call.arg.last = "Play"
    /\ call.arg.old = {} /\ call.arg.flags = {"DRAIN", "DROP"}

=============================================================================
